---- MODULE Spec2Model ----
(***************************************************************************)
(* A model of knops: the deploy-job queue of main() (one worker goroutine, *)
(* the POST /deploy/trigger handler) and the reconciliation engine of      *)
(* Operator (cloneRepoAndDeploy, deployCommit, applyFile).                 *)
(*                                                                         *)
(* Two specifications share the module:                                    *)
(*   Spec / FairSpec  the queue: handlers, the channel deployJobs, the     *)
(*                    worker; the outcome of a pass is an input, since it  *)
(*                    depends on the repository and the object store;      *)
(*   SpecReconcile    the engine: a sequence of passes, as the single      *)
(*                    worker runs them, over commits, a live object store   *)
(*                    and the cacheIds map.                                *)
(***************************************************************************)
EXTENDS Integers, Sequences, FiniteSets, TLC

(***************************************************************************)
(* Bounds of the model.                                                    *)
(***************************************************************************)
\* number of trigger requests (one handler goroutine each)
NumReq == 3
\* number of reconciliation passes of one process
MaxPasses == 2
\* capacity of the channel deployJobs: make(chan DeployJob, 16) in the
\* source, scaled down so that submissions outnumber the free slots
QueueCap == 2

Reqs == 1..NumReq

\* context.Background(): the job context of an asynchronous submission
Background == 0
\* a nil result channel (DeployJob.res of an asynchronous job)
NilChan == 0
NoJob == [id |-> 0, ctx |-> Background, res |-> NilChan]
\* the values of the error returned by cloneRepoAndDeploy
Errors == {"nil", "err"}

VARIABLES
  \* ---- the queue ----
  hpc,        \* hpc[h]: position of handler h: idle, select, wait, done
  hsync,      \* hsync[h]: r.FormValue("sync") = "1"
  reqDone,    \* reqDone[h]: r.Context() of request h is cancelled
  resp,       \* resp[h]: what handler h wrote to its ResponseWriter
  hrecv,      \* hrecv[h]: the value handler h received from its res channel
  deployJobs, \* the buffered channel deployJobs: a sequence of DeployJob
  resCh,      \* resCh[h]: the buffered channel res made by handler h
  wpc,        \* position of the worker goroutine: recv, check, run, deliver
  wjob,       \* the worker's local variable job
  werr,       \* the worker's local variable err
  wctx,       \* the worker's ctx: context.WithTimeout(job.ctx, deployTimeout)
  \* ---- history of the queue (not program state) ----
  enqLog,     \* job ids in the order their sends on deployJobs completed
  deqLog,     \* job ids in the order the worker received them
  running,    \* ids of the jobs whose cloneRepoAndDeploy call has not returned
  passes,     \* passes[h]: passes started for the job of handler h
  outcome,    \* outcome[h]: what the pass for job h returned
  sent,       \* sent[h]: sends the worker did on resCh[h]
  discarded,  \* ids of the jobs the worker dropped at the ctx.Done() check
  inQueueCancel, \* ids of the jobs whose context was cancelled while queued
  blockedCancel  \* requests cancelled while the handler slept on a full queue

qvars == <<hpc, hsync, reqDone, resp, hrecv, deployJobs, resCh, wpc, wjob,
           werr, wctx, enqLog, deqLog, running, passes, outcome, sent,
           discarded, inQueueCancel, blockedCancel>>

VARIABLES
  \* ---- the reconciliation engine ----
  conf,       \* the Operator's configuration: kinds, namespaces, allowCreate, onlyManaged
  cacheIds,   \* Operator.cacheIds: nil, or a map from file name to file id
  store,      \* the live objects of the cluster, by <<kind, namespace, name>>
  rpc,        \* idle: no pass yet or the last one forgotten; done: a pass returned
  passErr,    \* what the last cloneRepoAndDeploy returned
  \* ---- history of the engine (not program state) ----
  commit,     \* the HEAD commit of the last pass: id, policy file, tree
  fault,      \* the store call that failed in the last pass: <<index, call>>
  initStore,  \* the store when the process started
  report,     \* report[name]: what the last pass did with that file
  lastWrite,  \* lastWrite[key]: file id of the last successful create or update
  passCount,  \* passes begun
  prev        \* when the last pass met the HEAD of the pass before it: the
              \* error and the report of that pass

rvars == <<conf, cacheIds, store, rpc, passErr, commit, fault, initStore,
           report, lastWrite, passCount, prev>>

vars == <<qvars, rvars>>

(***************************************************************************)
(* Contexts.  A context is named by a number: Background, or the request   *)
(* h whose r.Context() it is.  The worker's ctx is a child of job.ctx with  *)
(* a deadline and a cancel function.                                       *)
(***************************************************************************)
\* <-c.Done() is ready
CtxDone(c) == c # Background /\ reqDone[c]

NoCtx == [parent |-> Background, timedOut |-> FALSE, cancelled |-> FALSE]

\* context.WithTimeout(parent, deployTimeout)
WithTimeout(parent) == [parent |-> parent, timedOut |-> FALSE, cancelled |-> FALSE]

\* Done() of a context made by WithTimeout: its deadline passed, its cancel
\* function was called, or its parent is done
DerivedDone(c) == c.timedOut \/ c.cancelled \/ CtxDone(c.parent)

\* capacity of a result channel: make(chan error, 1)
ResCap == 1

\* bug: the asynchronous job carries the request's context
AsyncJobRequestCtx(h) == [id |-> h, ctx |-> h, res |-> NilChan]

\* DeployJob{ctx: context.Background()}
AsyncJob(h) == [id |-> h, ctx |-> Background, res |-> NilChan]

\* bug: one result channel shared by every synchronous request
SyncJobSharedRes(h) == [id |-> h, ctx |-> h, res |-> 1]

\* a synchronous job detached from its request: ctx: context.Background()
SyncJobDetached(h) == [id |-> h, ctx |-> Background, res |-> h]

\* DeployJob{ctx: r.Context(), res: res}
SyncJob(h) == [id |-> h, ctx |-> h, res |-> h]

InQueue(h) == \E i \in 1..Len(deployJobs) : deployJobs[i].id = h

(***************************************************************************)
(* The state after main() has started the worker and the HTTP server.      *)
(***************************************************************************)
QInit ==
  /\ hpc = [h \in Reqs |-> "idle"]
  /\ hsync = [h \in Reqs |-> FALSE]
  /\ reqDone = [h \in Reqs |-> FALSE]
  /\ resp = [h \in Reqs |-> "none"]
  /\ hrecv = [h \in Reqs |-> "none"]
  /\ deployJobs = <<>>
  /\ resCh = [h \in Reqs |-> <<>>]
  /\ wpc = "recv"
  /\ wjob = NoJob
  /\ werr = "nil"
  /\ wctx = NoCtx
  /\ enqLog = <<>>
  /\ deqLog = <<>>
  /\ running = {}
  /\ passes = [h \in Reqs |-> 0]
  /\ outcome = [h \in Reqs |-> "none"]
  /\ sent = [h \in Reqs |-> 0]
  /\ discarded = {}
  /\ inQueueCancel = {}
  /\ blockedCancel = {}

(***************************************************************************)
(* The handler of POST /deploy/trigger, one goroutine per request.  When   *)
(* the handler returns, net/http cancels the request's context.            *)
(***************************************************************************)
\* The handlers run the same code, so the requests are numbered in the
\* order in which their handlers leave the select or are refused: request h
\* does so after every request g < h.
NextToLeave(h) ==
  \A g \in Reqs : g < h => hpc[g] \notin {"idle", "select", "parked", "woken"}

\* r.FormValue("key") != conf.Http.Key: 401 and return
HandlerUnauthorized(h) ==
  /\ hpc[h] = "idle"
  /\ NextToLeave(h)
  /\ hpc' = [hpc EXCEPT ![h] = "done"]
  /\ resp' = [resp EXCEPT ![h] = "401"]
  /\ reqDone' = [reqDone EXCEPT ![h] = TRUE]
  /\ UNCHANGED <<hsync, hrecv, deployJobs, resCh, wpc, wjob, werr,
                 wctx, enqLog, deqLog, running, passes, outcome, sent,
                 discarded, inQueueCancel,
                 blockedCancel>>
  /\ UNCHANGED rvars

\* the key matches; the handler reaches its select (sync = "1" or not)
HandlerAccept(h, sync) ==
  /\ hpc[h] = "idle"
  /\ hpc' = [hpc EXCEPT ![h] = "select"]
  /\ hsync' = [hsync EXCEPT ![h] = sync]
  /\ UNCHANGED <<reqDone, resp, hrecv, deployJobs, resCh, wpc, wjob, werr,
                 wctx, enqLog, deqLog, running, passes, outcome, sent,
                 discarded, inQueueCancel,
                 blockedCancel>>
  /\ UNCHANGED rvars

\* neither case of the select is ready (the queue is full, the context is
\* not done): the goroutine sleeps on both channels
HandlerPark(h) ==
  /\ hpc[h] = "select"
  /\ Len(deployJobs) = QueueCap
  /\ ~CtxDone(h)
  /\ hpc' = [hpc EXCEPT ![h] = "parked"]
  /\ UNCHANGED <<hsync, reqDone, resp, hrecv, deployJobs, resCh, wpc, wjob,
                 werr, wctx, enqLog, deqLog, running, passes, outcome, sent,
                 discarded, inQueueCancel,
                 blockedCancel>>
  /\ UNCHANGED rvars

\* bug: a full queue drops its oldest job to take the new one
HandlerEnqueueAsyncDropOldest(h) ==
  /\ hpc[h] \in {"select", "parked"}
  /\ NextToLeave(h)
  /\ ~hsync[h]
  /\ deployJobs' = IF Len(deployJobs) < QueueCap
                   THEN Append(deployJobs, AsyncJob(h))
                   ELSE Append(Tail(deployJobs), AsyncJob(h))
  /\ enqLog' = Append(enqLog, h)
  /\ resp' = [resp EXCEPT ![h] = "triggered"]
  /\ hpc' = [hpc EXCEPT ![h] = "done"]
  /\ reqDone' = [reqDone EXCEPT ![h] = TRUE]
  /\ UNCHANGED <<hsync, hrecv, resCh, wpc, wjob, werr, wctx, deqLog,
                 running, passes, outcome, sent, discarded, inQueueCancel,
                 blockedCancel>>
  /\ UNCHANGED rvars

\* case deployJobs <- DeployJob{ctx: context.Background()}: "triggered"
HandlerEnqueueAsync(h) ==
  /\ hpc[h] \in {"select", "parked"}
  /\ NextToLeave(h)
  /\ ~hsync[h]
  /\ Len(deployJobs) < QueueCap
  /\ deployJobs' = Append(deployJobs, AsyncJob(h))
  /\ enqLog' = Append(enqLog, h)
  /\ resp' = [resp EXCEPT ![h] = "triggered"]
  /\ hpc' = [hpc EXCEPT ![h] = "done"]
  /\ reqDone' = [reqDone EXCEPT ![h] = TRUE]
  /\ UNCHANGED <<hsync, hrecv, resCh, wpc, wjob, werr, wctx, deqLog,
                 running, passes, outcome, sent, discarded, inQueueCancel,
                 blockedCancel>>
  /\ UNCHANGED rvars

\* res := make(chan error, 1); case deployJobs <- DeployJob{ctx: r.Context(), res: res}
HandlerEnqueueSync(h) ==
  /\ hpc[h] \in {"select", "parked"}
  /\ NextToLeave(h)
  /\ hsync[h]
  /\ Len(deployJobs) < QueueCap
  /\ deployJobs' = Append(deployJobs, SyncJob(h))
  /\ enqLog' = Append(enqLog, h)
  /\ hpc' = [hpc EXCEPT ![h] = "wait"]
  /\ UNCHANGED <<hsync, reqDone, resp, hrecv, resCh, wpc, wjob, werr, wctx,
                 deqLog, running, passes, outcome, sent, discarded,
                 inQueueCancel,
                 blockedCancel>>
  /\ UNCHANGED rvars

\* case <-r.Context().Done(): log "deploy cancelled" and return (both
\* modes); a goroutine that the closing of Done() woke takes this case
HandlerAbandon(h) ==
  /\ \/ hpc[h] \in {"select", "parked"} /\ CtxDone(h)
     \/ hpc[h] = "woken"
  /\ NextToLeave(h)
  /\ hpc' = [hpc EXCEPT ![h] = "done"]
  /\ resp' = [resp EXCEPT ![h] = "cancelled"]
  /\ UNCHANGED <<hsync, reqDone, hrecv, deployJobs, resCh, wpc, wjob, werr,
                 wctx, enqLog, deqLog, running, passes, outcome, sent,
                 discarded, inQueueCancel,
                 blockedCancel>>
  /\ UNCHANGED rvars

\* err := <-res, then "finished" or the error with status 500
HandlerReceive(h) ==
  /\ hpc[h] = "wait"
  /\ resCh[h] # <<>>
  /\ hrecv' = [hrecv EXCEPT ![h] = Head(resCh[h])]
  /\ resCh' = [resCh EXCEPT ![h] = Tail(resCh[h])]
  /\ resp' = [resp EXCEPT ![h] = IF Head(resCh[h]) = "nil" THEN "finished" ELSE "error"]
  /\ hpc' = [hpc EXCEPT ![h] = "done"]
  /\ reqDone' = [reqDone EXCEPT ![h] = TRUE]
  /\ UNCHANGED <<hsync, deployJobs, wpc, wjob, werr, wctx, enqLog,
                 deqLog, running, passes, outcome, sent, discarded,
                 inQueueCancel,
                 blockedCancel>>
  /\ UNCHANGED rvars

\* the client of request h goes away: net/http cancels r.Context(); closing
\* Done() wakes a handler that sleeps in its select on a full queue
CancelRequest(h) ==
  /\ hpc[h] \in {"select", "parked", "wait"}
  /\ ~reqDone[h]
  /\ reqDone' = [reqDone EXCEPT ![h] = TRUE]
  /\ inQueueCancel' = IF InQueue(h) /\ hsync[h]
                      THEN inQueueCancel \cup {h} ELSE inQueueCancel
  /\ hpc' = IF hpc[h] = "parked" /\ Len(deployJobs) = QueueCap
            THEN [hpc EXCEPT ![h] = "woken"]
            ELSE hpc
  /\ blockedCancel' = IF hpc[h] = "parked" /\ Len(deployJobs) = QueueCap
                      THEN blockedCancel \cup {h}
                      ELSE blockedCancel
  /\ UNCHANGED <<hsync, resp, hrecv, deployJobs, resCh, wpc, wjob, werr,
                 wctx, enqLog, deqLog, running, passes, outcome, sent,
                 discarded>>
  /\ UNCHANGED rvars

(***************************************************************************)
(* The worker goroutine: for { job := <-deployJobs; ... }                  *)
(***************************************************************************)
\* bug: a job is received while the previous pass still runs (a pass per
\* goroutine)
WorkerReceiveWhileRunning ==
  /\ wpc \in {"recv", "run"}
  /\ deployJobs # <<>>
  /\ wjob' = Head(deployJobs)
  /\ deployJobs' = Tail(deployJobs)
  /\ deqLog' = Append(deqLog, Head(deployJobs).id)
  /\ wpc' = "check"
  /\ UNCHANGED <<hpc, hsync, reqDone, resp, hrecv, resCh, werr, wctx, enqLog,
                 running, passes, outcome, sent, discarded, inQueueCancel,
                 blockedCancel>>
  /\ UNCHANGED rvars

\* bug: the newest job is taken first
WorkerReceiveNewest ==
  /\ wpc = "recv"
  /\ deployJobs # <<>>
  /\ wjob' = deployJobs[Len(deployJobs)]
  /\ deployJobs' = SubSeq(deployJobs, 1, Len(deployJobs) - 1)
  /\ deqLog' = Append(deqLog, deployJobs[Len(deployJobs)].id)
  /\ wpc' = "check"
  /\ UNCHANGED <<hpc, hsync, reqDone, resp, hrecv, resCh, werr, wctx, enqLog,
                 running, passes, outcome, sent, discarded, inQueueCancel,
                 blockedCancel>>
  /\ UNCHANGED rvars

\* job := <-deployJobs
WorkerReceive ==
  /\ wpc = "recv"
  /\ deployJobs # <<>>
  /\ wjob' = Head(deployJobs)
  /\ deployJobs' = Tail(deployJobs)
  /\ deqLog' = Append(deqLog, Head(deployJobs).id)
  /\ wpc' = "check"
  /\ UNCHANGED <<hpc, hsync, reqDone, resp, hrecv, resCh, werr, wctx, enqLog,
                 running, passes, outcome, sent, discarded, inQueueCancel,
                 blockedCancel>>
  /\ UNCHANGED rvars

\* bug: the pass is run although job.ctx is done
WorkerRunCancelled ==
  /\ wpc = "check"
  /\ CtxDone(wjob.ctx)
  /\ wctx' = WithTimeout(wjob.ctx)
  /\ running' = running \cup {wjob.id}
  /\ passes' = [passes EXCEPT ![wjob.id] = @ + 1]
  /\ wpc' = "run"
  /\ UNCHANGED <<hpc, hsync, reqDone, resp, hrecv, deployJobs, resCh, wjob,
                 werr, enqLog, deqLog, outcome, sent, discarded, inQueueCancel,
                 blockedCancel>>
  /\ UNCHANGED rvars

\* bug: the dropped job's submitter is told: job.res <- job.ctx.Err()
WorkerDiscardDelivers ==
  /\ wpc = "check"
  /\ CtxDone(wjob.ctx)
  /\ discarded' = discarded \cup {wjob.id}
  /\ IF wjob.res # NilChan
     THEN /\ Len(resCh[wjob.res]) < ResCap
          /\ resCh' = [resCh EXCEPT ![wjob.res] = Append(@, "err")]
          /\ sent' = [sent EXCEPT ![wjob.res] = @ + 1]
     ELSE UNCHANGED <<resCh, sent>>
  /\ wjob' = NoJob
  /\ wpc' = "recv"
  /\ UNCHANGED <<hpc, hsync, reqDone, resp, hrecv, deployJobs, werr,
                 wctx, enqLog, deqLog, running, passes, outcome,
                 inQueueCancel,
                 blockedCancel>>
  /\ UNCHANGED rvars

\* select { case <-job.ctx.Done(): continue ... }
WorkerDiscard ==
  /\ wpc = "check"
  /\ CtxDone(wjob.ctx)
  /\ discarded' = discarded \cup {wjob.id}
  /\ wjob' = NoJob
  /\ wpc' = "recv"
  /\ UNCHANGED <<hpc, hsync, reqDone, resp, hrecv, deployJobs, resCh, werr,
                 wctx, enqLog, deqLog, running, passes, outcome, sent,
                 inQueueCancel,
                 blockedCancel>>
  /\ UNCHANGED rvars

\* select { ... default: }; ctx, cancel := context.WithTimeout(job.ctx,
\* deployTimeout); operator.cloneRepoAndDeploy(ctx) is entered
WorkerStartPass ==
  /\ wpc = "check"
  /\ ~CtxDone(wjob.ctx)
  /\ wctx' = WithTimeout(wjob.ctx)
  /\ running' = running \cup {wjob.id}
  /\ passes' = [passes EXCEPT ![wjob.id] = @ + 1]
  /\ wpc' = "run"
  /\ UNCHANGED <<hpc, hsync, reqDone, resp, hrecv, deployJobs, resCh, wjob,
                 werr, enqLog, deqLog, outcome, sent, discarded, inQueueCancel,
                 blockedCancel>>
  /\ UNCHANGED rvars

\* deployTimeout passes while the pass runs
WorkerTimeout ==
  /\ wpc = "run"
  /\ ~wctx.timedOut
  /\ wctx' = [wctx EXCEPT !.timedOut = TRUE]
  /\ UNCHANGED <<hpc, hsync, reqDone, resp, hrecv, deployJobs, resCh, wpc,
                 wjob, werr, enqLog, deqLog, running, passes, outcome, sent,
                 discarded, inQueueCancel,
                 blockedCancel>>
  /\ UNCHANGED rvars

\* bug: a pass that fails ends the worker goroutine
WorkerPassReturnExits(e) ==
  /\ wpc = "run"
  /\ werr' = e
  /\ wctx' = [wctx EXCEPT !.cancelled = TRUE]
  /\ running' = running \ {wjob.id}
  /\ outcome' = [outcome EXCEPT ![wjob.id] = e]
  /\ wpc' = IF e = "nil" THEN "deliver" ELSE "exited"
  /\ UNCHANGED <<hpc, hsync, reqDone, resp, hrecv, deployJobs, resCh, wjob,
                 enqLog, deqLog, passes, sent, discarded, inQueueCancel,
                 blockedCancel>>
  /\ UNCHANGED rvars

\* err := operator.cloneRepoAndDeploy(ctx) returns e; cancel()
WorkerPassReturn(e) ==
  /\ wpc = "run"
  /\ werr' = e
  /\ wctx' = [wctx EXCEPT !.cancelled = TRUE]
  /\ running' = running \ {wjob.id}
  /\ outcome' = [outcome EXCEPT ![wjob.id] = e]
  /\ wpc' = "deliver"
  /\ UNCHANGED <<hpc, hsync, reqDone, resp, hrecv, deployJobs, resCh, wjob,
                 enqLog, deqLog, passes, sent, discarded, inQueueCancel,
                 blockedCancel>>
  /\ UNCHANGED rvars

\* if job.res != nil { job.res <- err }, then the next iteration
WorkerDeliver ==
  /\ wpc = "deliver"
  /\ IF wjob.res # NilChan
     THEN /\ Len(resCh[wjob.res]) < ResCap
          /\ resCh' = [resCh EXCEPT ![wjob.res] = Append(@, werr)]
          /\ sent' = [sent EXCEPT ![wjob.res] = @ + 1]
     ELSE UNCHANGED <<resCh, sent>>
  /\ wjob' = NoJob
  /\ wctx' = NoCtx
  /\ werr' = "nil"
  /\ wpc' = "recv"
  /\ UNCHANGED <<hpc, hsync, reqDone, resp, hrecv, deployJobs, enqLog, deqLog,
                 running, passes, outcome, discarded, inQueueCancel,
                 blockedCancel>>
  /\ UNCHANGED rvars

Worker ==
  \/ WorkerReceive
  \/ WorkerDiscard
  \/ WorkerStartPass
  \/ \E e \in Errors : WorkerPassReturn(e)
  \/ WorkerDeliver

QNext ==
  \/ \E h \in Reqs : HandlerUnauthorized(h)
  \/ \E h \in Reqs, sync \in BOOLEAN : HandlerAccept(h, sync)
  \/ \E h \in Reqs : HandlerPark(h)
  \/ \E h \in Reqs : HandlerEnqueueAsync(h)
  \/ \E h \in Reqs : HandlerEnqueueSync(h)
  \/ \E h \in Reqs : HandlerAbandon(h)
  \/ \E h \in Reqs : HandlerReceive(h)
  \/ \E h \in Reqs : CancelRequest(h)
  \/ WorkerReceive
  \/ WorkerDiscard
  \/ WorkerStartPass
  \/ WorkerTimeout
  \/ \E e \in Errors : WorkerPassReturn(e)
  \/ WorkerDeliver

(***************************************************************************)
(* The reconciliation engine: data.                                        *)
(***************************************************************************)
operatorName == "knops"
managedByLabel == "app.kubernetes.io/managed-by"
commitIdAnnotation == "meta.knops/commit-id"
fileIdAnnotation == "meta.knops/file-id"

\* a Go map[string]string is a function on its keys; a missing key reads ""
EmptyMap == <<>>
Lookup(m, k) == IF k \in DOMAIN m THEN m[k] ELSE ""
MapSet(m, k, v) == [x \in DOMAIN m \cup {k} |-> IF x = k THEN v ELSE m[x]]
\* maps.Copy(dst, src)
MapCopy(dst, src) ==
  [x \in DOMAIN dst \cup DOMAIN src |-> IF x \in DOMAIN src THEN src[x] ELSE dst[x]]

\* slices.Contains
Contains(seq, x) == \E i \in 1..Len(seq) : seq[i] = x

\* File names are sequences of tokens, "/" and "." being tokens of their own.
NameA == <<"a", ".", "yaml">>
NameB == <<"b", ".", "yaml">>
NameReadme == <<"README", ".", "md">>
NameDotNops == <<".", "nops", ".", "yaml">>
NameHidden == <<"dir", "/", ".", "hidden", ".", "yaml">>
Names == {NameA, NameB, NameReadme, NameDotNops, NameHidden}

\* strings.HasSuffix(name, ".yaml")
HasYamlSuffix(name) ==
  Len(name) >= 2 /\ name[Len(name) - 1] = "." /\ name[Len(name)] = "yaml"

\* path.Base(name): what follows the last "/"
RECURSIVE Base(_)
Base(name) ==
  IF \E i \in 1..Len(name) : name[i] = "/"
  THEN Base(Tail(name))
  ELSE name

\* strings.HasPrefix(path.Base(name), ".")
HiddenBase(name) == Len(Base(name)) >= 1 /\ Base(name)[1] = "."

\* bug: every .yaml file is selected, hidden or not
SelectedAnyYaml(name) == HasYamlSuffix(name)

\* the files deployCommit looks at: not (no .yaml suffix or hidden base name)
Selected(name) == ~(~HasYamlSuffix(name) \/ HiddenBase(name))

\* A decoded document (unstructured.Unstructured) and a live object.
Doc(kind, ns, name, labels) ==
  [present |-> TRUE, kind |-> kind, ns |-> ns, name |-> name,
   labels |-> labels, annotations |-> EmptyMap, rv |-> 0]
\* a nil *unstructured.Unstructured
NoObj ==
  [present |-> FALSE, kind |-> "", ns |-> "", name |-> "",
   labels |-> EmptyMap, annotations |-> EmptyMap, rv |-> 0]

\* A file of a tree: its name, its blob id, and what decoding its bytes gives.
File(name, id, ok, doc) == [name |-> name, id |-> id, ok |-> ok, doc |-> doc]

\* versions of a.yaml: a Deployment x in ns1
FileA1 == File(NameA, "f1", TRUE, Doc("Deployment", "ns1", "x", EmptyMap))
FileA2 == File(NameA, "f2", TRUE,
               Doc("Deployment", "ns1", "x",
                   [k \in {"team", "app"} |-> IF k = "team" THEN "file" ELSE "web"]))
\* versions of b.yaml: a kind that is not listed (in ns2), a Deployment in
\* ns2, bytes that do not decode, and a second Deployment in ns1
FileB1 == File(NameB, "g1", TRUE, Doc("Secret", "ns2", "y", EmptyMap))
FileB2 == File(NameB, "g2", TRUE,
               Doc("Deployment", "ns2", "x", [k \in {managedByLabel} |-> "file"]))
FileB3 == File(NameB, "g3", FALSE, NoObj)
FileB4 == File(NameB, "g4", TRUE, Doc("Deployment", "ns1", "y", EmptyMap))
\* files that are not manifests
FileReadme == File(NameReadme, "r1", FALSE, NoObj)
FileHidden == File(NameHidden, "h1", TRUE, Doc("Deployment", "ns1", "y", EmptyMap))
\* the blob of .nops.yaml, which is no manifest
FileDotNops == File(NameDotNops, "n1", FALSE, NoObj)

Manifests == {FileA1, FileA2, FileB1, FileB2, FileB3, FileB4}

\* the manifests of a tree, in every enumeration order
ManifestSeqs ==
  {<<>>} \cup {<<f>> : f \in Manifests}
         \cup {<<f, g>> : f, g \in Manifests}

\* .nops.yaml: absent from the tree, not YAML, or a DotNops
PolicyMissing == [state |-> "missing", ns |-> "", labels |-> EmptyMap]
PolicyMalformed == [state |-> "malformed", ns |-> "", labels |-> EmptyMap]
PolicyNs1 ==
  [state |-> "ok", ns |-> "ns1",
   labels |-> [k \in {"team", managedByLabel} |-> "pol"]]
PolicyNs2 == [state |-> "ok", ns |-> "ns2", labels |-> EmptyMap]
Policies == {PolicyMissing, PolicyMalformed, PolicyNs1, PolicyNs2}

\* A commit id is a hash of the commit: the commits that hold the second
\* version of a.yaml have another id than those that do not.
CommitIdOf(m) == IF \E i \in 1..Len(m) : m[i] = FileA2 THEN "c2" ELSE "c1"

\* a tree: README.md, the manifests m, a hidden .yaml file and, when it
\* exists, .nops.yaml
TreeOf(m, p) ==
  <<FileReadme>> \o m \o <<FileHidden>>
  \o (IF p.state = "missing" THEN <<>> ELSE <<FileDotNops>>)

\* The HEAD commits: an id, a policy file and a tree with up to two
\* manifests of different names, in either order.  A commit whose policy
\* file is missing or malformed holds two manifests.
Commits ==
  {[id |-> CommitIdOf(m), policy |-> p, tree |-> TreeOf(m, p)] :
     p \in {PolicyNs1, PolicyNs2},
     m \in {t \in ManifestSeqs : Len(t) = 2 => t[1].name # t[2].name}}
  \cup
  {[id |-> CommitIdOf(m), policy |-> p, tree |-> TreeOf(m, p)] :
     p \in {PolicyMissing, PolicyMalformed},
     m \in {<<FileA1, FileB4>>, <<FileB1, FileA2>>}}

NoCommit == [id |-> "", policy |-> PolicyMissing, tree |-> <<>>]

\* the object a document addresses
KeyOf(kind, ns, name) == <<kind, ns, name>>
Keys == {KeyOf(k, n, o) : k \in {"Deployment", "Secret"}, n \in {"ns1", "ns2"},
                          o \in {"x", "y"}}

\* a live object that exists when the process starts: one of another manager
ForeignObj(key) ==
  [present |-> TRUE, kind |-> key[1], ns |-> key[2], name |-> key[3],
   labels |-> [k \in {managedByLabel} |-> "other"],
   annotations |-> EmptyMap, rv |-> 1]

\* the objects that may exist at the start
InitKeys == {KeyOf("Deployment", "ns1", "x"), KeyOf("Deployment", "ns1", "y")}

InitStores ==
  {[k \in Keys |-> IF k \in present THEN ForeignObj(k) ELSE NoObj] :
     present \in SUBSET InitKeys}

\* conf.Operator: the kinds and namespaces lists and the three switches
Configs ==
  [kinds : {<<"Deployment">>}, namespaces : {<<>>, <<"ns1">>},
   allowCreate : BOOLEAN, onlyManaged : BOOLEAN, cacheFileId : BOOLEAN]


(***************************************************************************)
(* The object store, as KubeClient uses it.  A call fails when the pass's  *)
(* fault names it; otherwise it does what the API server does.             *)
(***************************************************************************)
\* KubeClient.get
KubeGet(st, kind, ns, name, flt) ==
  IF flt = "get" THEN [obj |-> NoObj, err |-> "ServerError"]
  ELSE IF st[KeyOf(kind, ns, name)].present
       THEN [obj |-> st[KeyOf(kind, ns, name)], err |-> "nil"]
       ELSE [obj |-> NoObj, err |-> "NotFound"]

\* KubeClient.create: the object must not exist; it gets its first version
KubeCreate(st, doc, flt) ==
  LET key == KeyOf(doc.kind, doc.ns, doc.name) IN
  IF flt = "write" THEN [store |-> st, err |-> "ServerError"]
  ELSE IF st[key].present THEN [store |-> st, err |-> "AlreadyExists"]
  ELSE [store |-> [st EXCEPT ![key] = [doc EXCEPT !.rv = 1]], err |-> "nil"]

\* KubeClient.update: the object must exist and the document must carry its
\* resourceVersion; the stored object gets the next version
KubeUpdate(st, doc, flt) ==
  LET key == KeyOf(doc.kind, doc.ns, doc.name) IN
  IF flt = "write" THEN [store |-> st, err |-> "ServerError"]
  ELSE IF ~st[key].present THEN [store |-> st, err |-> "NotFound"]
  ELSE IF doc.rv # st[key].rv THEN [store |-> st, err |-> "Conflict"]
  ELSE [store |-> [st EXCEPT ![key] = [doc EXCEPT !.rv = st[key].rv + 1]],
        err |-> "nil"]

(***************************************************************************)
(* Operator.applyFile                                                      *)
(***************************************************************************)
\* loadUnstructuredFromFile
LoadUnstructured(file) ==
  IF file.ok THEN [doc |-> file.doc, err |-> "nil"]
  ELSE [doc |-> NoObj, err |-> "DecodeError"]

\* bug: objects of other managers are not protected
SkipUnmanagedNever(cfg, actual) == FALSE

\* o.onlyManaged && labels[managedByLabel] != operatorName
SkipUnmanaged(cfg, actual) ==
  cfg.onlyManaged /\ Lookup(actual.labels, managedByLabel) # operatorName

\* annotations[fileIdAnnotation] == file.ID().String()
SameFile(actual, file) == Lookup(actual.annotations, fileIdAnnotation) = file.id

\* bug: the file id is written under the commit-id annotation only
InjectNoFileId(desired, policy, commitId, file) ==
  [desired EXCEPT
     !.labels = MapSet(MapCopy(desired.labels, policy.labels),
                       managedByLabel, operatorName),
     !.annotations = MapSet(desired.annotations, commitIdAnnotation, commitId)]

\* bug: the ownership label is set before the policy's labels are copied
InjectOwnerFirst(desired, policy, commitId, file) ==
  [desired EXCEPT
     !.labels = MapCopy(MapSet(desired.labels, managedByLabel, operatorName),
                        policy.labels),
     !.annotations = MapSet(MapSet(desired.annotations, commitIdAnnotation, commitId),
                            fileIdAnnotation, file.id)]

\* the labels and annotations applyFile sets on the desired document
Inject(desired, policy, commitId, file) ==
  [desired EXCEPT
     !.labels = MapSet(MapCopy(desired.labels, policy.labels),
                       managedByLabel, operatorName),
     !.annotations = MapSet(MapSet(desired.annotations, commitIdAnnotation, commitId),
                            fileIdAnnotation, file.id)]

\* bug: the namespace is compared before the kind is looked up
PrecheckNamespaceFirst(cfg, policy, dec) ==
  IF dec.err # "nil" THEN dec.err
  ELSE IF dec.doc.ns # policy.ns THEN "NamespaceMismatch"
  ELSE IF ~Contains(cfg.kinds, dec.doc.kind) THEN "UnsupportedKind"
  ELSE "nil"

\* the checks applyFile makes before it calls the store, in their order:
\* the decode error, the kind, the namespace
Precheck(cfg, policy, dec) ==
  IF dec.err # "nil" THEN dec.err
  ELSE IF ~Contains(cfg.kinds, dec.doc.kind) THEN "UnsupportedKind"
  ELSE IF dec.doc.ns # policy.ns THEN "NamespaceMismatch"
  ELSE "nil"

\* bug: the document keeps the resourceVersion of the file
SetResourceVersionOfFile(desired, actual) == desired

\* desired.SetResourceVersion(actual.GetResourceVersion())
SetResourceVersion(desired, actual) == [desired EXCEPT !.rv = actual.rv]

\* What one call of applyFile gives: its error, the store calls it made, what
\* get returned, the document it wrote, and the store afterwards.
Applied(err, calls, actual, wrote, st) ==
  [err |-> err, calls |-> calls, actual |-> actual, wrote |-> wrote, store |-> st]

ApplyFile(cfg, st, policy, commitId, file, flt) ==
  LET dec == LoadUnstructured(file) IN
  IF Precheck(cfg, policy, dec) # "nil"
  THEN Applied(Precheck(cfg, policy, dec), <<>>, NoObj, NoObj, st)
  ELSE
    LET got == KubeGet(st, dec.doc.kind, policy.ns, dec.doc.name, flt)
        actual == got.obj
    IN
    IF got.err # "nil" /\ (got.err # "NotFound" \/ ~cfg.allowCreate)
    THEN Applied(got.err, <<"get">>, actual, NoObj, st)
    ELSE IF actual.present /\ SkipUnmanaged(cfg, actual)
    THEN Applied("nil", <<"get">>, actual, NoObj, st)
    ELSE IF actual.present /\ SameFile(actual, file)
    THEN Applied("nil", <<"get">>, actual, NoObj, st)
    ELSE
      LET desired == Inject(dec.doc, policy, commitId, file) IN
      IF actual.present
      THEN LET doc == SetResourceVersion(desired, actual)
               up == KubeUpdate(st, doc, flt)
           IN Applied(up.err, <<"get", "update">>, actual, doc, up.store)
      ELSE LET cr == KubeCreate(st, desired, flt)
           IN Applied(cr.err, <<"get", "create">>, actual, desired, cr.store)


(***************************************************************************)
(* Operator.deployCommit and Operator.cloneRepoAndDeploy                   *)
(***************************************************************************)
\* Operator.cacheIds: nil unless conf.Operator.CacheFileId
NilCache == [nil |-> TRUE, m |-> EmptyMap]
MakeCache == [nil |-> FALSE, m |-> EmptyMap]

\* what a pass did with one file
Report(result, calls, actual, wrote, prior) ==
  [outcome |-> result, calls |-> calls, actual |-> actual, wrote |-> wrote,
   prior |-> prior]
NoReport == Report("none", <<>>, NoObj, NoObj, "")
NoFault == <<0, "none">>

\* the faults a pass over commit c can meet: none, or one failing get or
\* create/update for one of its manifests that applyFile takes to the store
Faults(cfg, c) ==
  {NoFault} \cup
  {<<i, call>> : i \in {j \in 1..Len(c.tree) :
                          /\ c.policy.state = "ok"
                          /\ c.tree[j] \in Manifests
                          /\ c.tree[j].ok
                          /\ Contains(cfg.kinds, c.tree[j].doc.kind)
                          /\ c.tree[j].doc.ns = c.policy.ns},
                 call \in {"get", "write"}}

\* bug: the namespace allow-list is not consulted
RestrictedNever(cfg, policy) == FALSE

\* len(o.namespaces) > 0 && !slices.Contains(o.namespaces, dotNops.Namespace)
Restricted(cfg, policy) ==
  Len(cfg.namespaces) > 0 /\ ~Contains(cfg.namespaces, policy.ns)

\* loadDotNopsFromTree: tree.File(".nops.yaml") and yaml.Unmarshal
LoadDotNops(c) ==
  IF c.policy.state = "ok" THEN [policy |-> c.policy, err |-> "nil"]
  ELSE [policy |-> PolicyMissing, err |-> "LoadDotNops"]

\* bug: the cache is not consulted
CacheHitNever(cache, f) == FALSE

\* o.cacheIds != nil && o.cacheIds[f.Name] == fileId
CacheHit(cache, f) == ~cache.nil /\ Lookup(cache.m, f.name) = f.id

\* bug: the file id is cached whatever applyFile returned
CacheStoreAlways(cache, f, err) ==
  IF ~cache.nil THEN [cache EXCEPT !.m = MapSet(@, f.name, f.id)] ELSE cache

\* the cache after applyFile returned err for file f: the id is stored when
\* err is nil and the cache exists
CacheStore(cache, f, err) ==
  IF err = "nil" /\ ~cache.nil
  THEN [cache EXCEPT !.m = MapSet(@, f.name, f.id)]
  ELSE cache

\* bug: the callback returns the error of applyFile
FileErrorReturned(err) == err

\* what the ForEach callback returns when applyFile failed: the error is
\* logged and nil is returned
FileErrorResult(err) == "nil"

\* The state a pass works on: the store, the cache, the history, and the
\* error that stopped ForEach.
Acc(st, cache, lw, rep, err) ==
  [store |-> st, cache |-> cache, lastWrite |-> lw, report |-> rep, err |-> err]

\* the callback of tree.Files().ForEach for file i of the tree of c
FileCallback(cfg, c, flt, i, acc) ==
  LET f == c.tree[i]
      key == KeyOf(f.doc.kind, c.policy.ns, f.doc.name)
      r == ApplyFile(cfg, acc.store, c.policy, c.id, f,
                     IF flt[1] = i THEN flt[2] ELSE "none")
  IN
  IF ~Selected(f.name)
  THEN [acc EXCEPT !.report[f.name] = Report("ignored", <<>>, NoObj, NoObj, "")]
  ELSE IF CacheHit(acc.cache, f)
  THEN [acc EXCEPT !.report[f.name] = Report("cached", <<>>, NoObj, NoObj, "")]
  ELSE
    Acc(r.store,
        CacheStore(acc.cache, f, r.err),
        IF r.err = "nil" /\ Len(r.calls) = 2
        THEN [acc.lastWrite EXCEPT ![key] = f.id]
        ELSE acc.lastWrite,
        [acc.report EXCEPT ![f.name] =
           Report(IF r.err = "nil" THEN "applied" ELSE r.err, r.calls, r.actual,
                  r.wrote, IF key \in Keys THEN acc.lastWrite[key] ELSE "")],
        IF r.err # "nil" THEN FileErrorResult(r.err) ELSE "nil")

\* tree.Files().ForEach from file i on: it stops at the first error
RECURSIVE ForEachFile(_, _, _, _, _)
ForEachFile(cfg, c, flt, i, acc) ==
  IF i > Len(c.tree) \/ acc.err # "nil" THEN acc
  ELSE ForEachFile(cfg, c, flt, i + 1, FileCallback(cfg, c, flt, i, acc))

\* Operator.deployCommit on commit c
DeployCommit(cfg, c, flt, acc) ==
  IF LoadDotNops(c).err # "nil" THEN [acc EXCEPT !.err = LoadDotNops(c).err]
  ELSE IF Restricted(cfg, LoadDotNops(c).policy)
  THEN [acc EXCEPT !.err = "RestrictedNamespace"]
  ELSE ForEachFile(cfg, c, flt, 1, acc)

\* no earlier pass over the same commit
NoPrev == [ran |-> FALSE, err |-> "none", report |-> [n \in Names |-> NoReport]]

\* the state of the engine before the first pass, for a configuration and
\* a store
REngineInit(cfg, st) ==
  /\ conf = cfg
  /\ cacheIds = IF cfg.cacheFileId THEN MakeCache ELSE NilCache
  /\ store = st
  /\ initStore = st
  /\ rpc = "idle"
  /\ commit = NoCommit
  /\ fault = NoFault
  /\ passErr = "none"
  /\ report = [n \in Names |-> NoReport]
  /\ lastWrite = [k \in Keys |-> ""]
  /\ passCount = 0
  /\ prev = NoPrev

\* cloneRepoAndDeploy: o.git.clone, repo.Head or repo.CommitObject fails
PassCloneFails ==
  /\ rpc = "idle"
  /\ passCount < MaxPasses
  /\ passCount' = passCount + 1
  /\ passErr' = "CloneError"
  /\ rpc' = "done"
  /\ prev' = NoPrev
  /\ UNCHANGED <<conf, cacheIds, store, commit, fault, initStore, report,
                 lastWrite>>
  /\ UNCHANGED qvars

\* cloneRepoAndDeploy: HEAD is commit c and deployCommit(c) runs, one store
\* call failing or none
Pass(c) ==
  /\ rpc = "idle"
  /\ passCount < MaxPasses
  /\ \E flt \in Faults(conf, c) :
       LET r == DeployCommit(conf, c, flt,
                             Acc(store, cacheIds, lastWrite,
                                 [n \in Names |-> NoReport], "nil"))
       IN /\ store' = r.store
          /\ cacheIds' = r.cache
          /\ lastWrite' = r.lastWrite
          /\ report' = r.report
          /\ passErr' = r.err
          /\ fault' = flt
  /\ passCount' = passCount + 1
  /\ commit' = c
  /\ rpc' = "done"
  /\ prev' = NoPrev
  /\ UNCHANGED <<conf, initStore>>
  /\ UNCHANGED qvars

\* cloneRepoAndDeploy for the next job while HEAD is still the commit of the
\* pass before: deployCommit runs over the same commit, one store call
\* failing or none
PassAgain ==
  /\ rpc = "done"
  /\ commit # NoCommit
  /\ passCount < MaxPasses
  /\ \E flt \in Faults(conf, commit) :
       LET r == DeployCommit(conf, commit, flt,
                             Acc(store, cacheIds, lastWrite,
                                 [n \in Names |-> NoReport], "nil"))
       IN /\ store' = r.store
          /\ cacheIds' = r.cache
          /\ lastWrite' = r.lastWrite
          /\ report' = r.report
          /\ passErr' = r.err
          /\ fault' = flt
  /\ passCount' = passCount + 1
  /\ prev' = [ran |-> TRUE, err |-> passErr, report |-> report]
  /\ UNCHANGED <<conf, initStore, commit, rpc>>
  /\ UNCHANGED qvars

\* the worker goes on to its next job; the record of the pass is dropped
PassForget ==
  /\ rpc = "done"
  /\ rpc' = "idle"
  /\ commit' = NoCommit
  /\ fault' = NoFault
  /\ passErr' = "none"
  /\ report' = [n \in Names |-> NoReport]
  /\ prev' = NoPrev
  /\ UNCHANGED <<conf, cacheIds, store, initStore, lastWrite, passCount>>
  /\ UNCHANGED qvars

\* the engine of a process whose queue is still empty
RQuiet ==
  REngineInit([kinds |-> <<"Deployment">>, namespaces |-> <<>>,
               allowCreate |-> TRUE, onlyManaged |-> FALSE,
               cacheFileId |-> FALSE],
              [k \in Keys |-> NoObj])

\* a process with any configuration, started against any store
RInit ==
  /\ QInit
  /\ \E cfg \in Configs, st \in InitStores : REngineInit(cfg, st)

RNext ==
  \/ PassCloneFails
  \/ \E c \in Commits : Pass(c)
  \/ PassAgain
  \/ PassForget

SpecReconcile == RInit /\ [][RNext]_vars

Init == QInit /\ RQuiet

Next == QNext

Spec == Init /\ [][Next]_vars

\* The Go scheduler keeps running the worker goroutine, and every pass
\* returns (its context has a deadline).
FairSpec == Spec /\ WF_vars(Worker)

(***************************************************************************)
(* Properties of the queue.                                                *)
(***************************************************************************)
\* s is an initial segment of t
IsPrefix(s, t) == Len(s) <= Len(t) /\ \A i \in 1..Len(s) : s[i] = t[i]

\* the worker has received job h and has left it behind
Processed(h) ==
  /\ \E i \in 1..Len(deqLog) : deqLog[i] = h
  /\ wjob.id # h

\* C1: at most one reconciliation pass is in progress in every reachable
\* state; the pass of the next job starts only after the previous one has
\* returned.
C1_MutualExclusion ==
  /\ Cardinality(running) <= 1
  /\ running # {} => wpc = "run" /\ running = {wjob.id}

\* a pass runs after an earlier one has returned, with another job queued
C1_Witness ==
  \E h \in Reqs :
    /\ running = {h}
    /\ deployJobs # <<>>
    /\ \E g \in Reqs : g # h /\ passes[g] = 1 /\ outcome[g] # "none"

\* C2: every acknowledged asynchronous submission is executed by exactly one
\* pass: never more than one, and eventually one, whether or not the
\* request's context is cancelled later and with more submissions than
\* queue slots.  An acknowledgement is never withdrawn, so "each
\* acknowledged job is eventually executed" is stated as: from some point
\* on, every acknowledged job has had its pass.
C2_NoAsyncLostOrDuplicated ==
  /\ [](\A h \in Reqs : passes[h] <= 1)
  /\ [][\A h \in Reqs : resp[h] = "triggered" => resp'[h] = "triggered"]_vars
  /\ <>[](\A h \in Reqs :
            resp[h] = "triggered" => (passes[h] = 1 /\ outcome[h] # "none"))

\* every request was asynchronous and acknowledged (more than the queue
\* holds), each context is cancelled, and each job has had its one pass
C2_Witness ==
  /\ NumReq > QueueCap
  /\ \A h \in Reqs :
       /\ resp[h] = "triggered"
       /\ reqDone[h]
       /\ passes[h] = 1
       /\ outcome[h] # "none"

\* C3: what a synchronous submitter receives, and what lies in its result
\* channel, is the outcome of the pass run for its own job, and only after
\* that pass has returned.
C3_SyncRoundTrip ==
  \A h \in Reqs :
    /\ hrecv[h] # "none" =>
         /\ passes[h] = 1
         /\ h \notin running
         /\ hrecv[h] = outcome[h]
    /\ resCh[h] # <<>> =>
         /\ h \notin running
         /\ resCh[h] = <<outcome[h]>>

\* two synchronous submitters have received different outcomes
C3_Witness ==
  \E g, h \in Reqs : hrecv[g] = "nil" /\ hrecv[h] = "err"

\* C4: every job enqueued with a result channel, once the worker has
\* received it and moved on, has had exactly one result sent to its channel.
C4_ExactlyOneResult ==
  \A h \in Reqs :
    /\ sent[h] <= 1
    /\ (hsync[h] /\ Processed(h)) => sent[h] = 1

\* C5 as stated: a job whose context was cancelled while it waited in the
\* queue still gets its pass once the worker has received it.
C5_CancelledJobStillRuns ==
  \A h \in inQueueCancel : Processed(h) => passes[h] = 1

\* C5 amended: cancellation while queued leaves the job in the queue until
\* the worker receives it, and then the worker drops it without a pass; a
\* pass is run for exactly the received jobs that were not dropped.
C5_CancelledJobDiscarded ==
  /\ \A h \in inQueueCancel :
       /\ passes[h] = 0
       /\ \/ InQueue(h)
          \/ wjob.id = h /\ wpc = "check"
          \/ h \in discarded
  /\ \A h \in Reqs :
       Processed(h) => (passes[h] = 1 <=> h \notin discarded)

\* a job cancelled while queued has been received and dropped
C5_Witness ==
  \E h \in inQueueCancel : h \in discarded /\ Processed(h)

\* C6 as stated: while a pass runs, its working context is done only
\* because the worker's own deadline has passed.
C6_OnlyTimeoutEndsContext ==
  (wpc = "run" /\ DerivedDone(wctx)) => wctx.timedOut

\* C6 amended: while a pass runs, its working context is done exactly when
\* the deadline has passed or, for a synchronous job, the submitter's
\* context is cancelled; the pass of an asynchronous job is not affected by
\* its request.
C6_ContextFollowsSyncSubmitter ==
  wpc = "run" =>
    (DerivedDone(wctx) <=>
       (wctx.timedOut \/ (wjob.res # NilChan /\ reqDone[wjob.id])))

\* a pass runs for a synchronous job whose submitter has cancelled, before
\* the deadline
C6_Witness ==
  /\ wpc = "run"
  /\ wjob.res # NilChan
  /\ reqDone[wjob.id]
  /\ ~wctx.timedOut
  /\ DerivedDone(wctx)

\* C7: jobs are received in the order in which they were enqueued, and when
\* a job's pass has started every job enqueued before it has been received
\* and been dropped or had its pass return.
C7_FIFO ==
  /\ IsPrefix(deqLog, enqLog)
  /\ \A i, j \in 1..Len(enqLog) :
       (i < j /\ passes[enqLog[j]] >= 1) =>
         /\ enqLog[i] \notin running
         /\ Processed(enqLog[i])
         /\ enqLog[i] \in discarded \/ outcome[enqLog[i]] # "none"

\* two jobs waited in the queue together; both have been received and the
\* pass of the second runs after the first returned
C7_Witness ==
  /\ Len(deqLog) >= 2
  /\ wpc = "run"
  /\ outcome[deqLog[1]] # "none"
  /\ Len(deployJobs) + 2 <= Len(enqLog)
  /\ deployJobs # <<>>

(***************************************************************************)
(* Properties of the reconciliation engine.                                *)
(***************************************************************************)
ManifestNames == {NameA, NameB}

\* the positions of the selected files in the tree of the last pass
SelectedAt == {i \in 1..Len(commit.tree) : Selected(commit.tree[i].name)}

\* the last pass called applyFile for file i, get returned a live object,
\* and the last successful create or update of that object was made for the
\* same file id
AppliedTwice(i) ==
  LET f == commit.tree[i] IN
  /\ report[f.name].actual.present
  /\ report[f.name].prior = f.id

\* C8: when applyFile has created or updated the live object for a file id,
\* the next applyFile of the same file id that reads that object makes no
\* create and no update call and returns nil: one mutation over both applies.
C8_ApplyIdempotent ==
  \A i \in SelectedAt :
    AppliedTwice(i) =>
      /\ report[commit.tree[i].name].calls = <<"get">>
      /\ report[commit.tree[i].name].outcome = "applied"

\* a second pass has applied a file whose id wrote the object before
C8_Witness ==
  /\ rpc = "done"
  /\ passCount = 2
  /\ \E i \in SelectedAt :
       /\ AppliedTwice(i)
       /\ report[commit.tree[i].name].outcome = "applied"

\* the last pass read, for file n, a live object that this agent does not own
ReadUnmanaged(n) ==
  /\ report[n].actual.present
  /\ Lookup(report[n].actual.labels, managedByLabel) # operatorName

\* C9: with onlyManaged, an object that is not labelled as managed by this
\* agent is never created over or updated, whatever the files say: the
\* objects of other managers stay as they were, and applyFile returns nil
\* after its get.
C9_OwnershipIsolation ==
  conf.onlyManaged =>
    /\ \A k \in Keys : initStore[k].present => store[k] = initStore[k]
    /\ \A n \in ManifestNames :
         ReadUnmanaged(n) =>
           /\ report[n].calls = <<"get">>
           /\ report[n].outcome = "applied"

\* with onlyManaged, a pass has met an object of another manager with a
\* manifest for it, after an earlier pass
C9_Witness ==
  /\ conf.onlyManaged
  /\ rpc = "done"
  /\ passCount = 2
  /\ \E n \in ManifestNames : ReadUnmanaged(n) /\ report[n].outcome = "applied"

\* the last pass got a commit whose policy file loads and whose namespace is
\* allowed
PassLoaded ==
  /\ rpc = "done"
  /\ passErr # "CloneError"
  /\ commit.policy.state = "ok"
  /\ ~(Len(conf.namespaces) > 0 /\ ~Contains(conf.namespaces, commit.policy.ns))

\* file i of the tree cannot be applied: it does not decode, its kind is
\* not listed, or its namespace is not the policy's
Rejected(i) ==
  LET f == commit.tree[i] IN
  \/ ~f.ok
  \/ ~Contains(conf.kinds, f.doc.kind)
  \/ f.doc.ns # commit.policy.ns

\* C10: a pass whose tree and policy load and whose namespace is allowed
\* returns nil whatever happens to its files; every selected file is
\* evaluated, in any order: a rejected file makes no store call, a file whose
\* store call fails (or whose object is absent with creation disabled) has
\* an error of its own, and a file that can be applied, with no fault and no
\* live object, is created when creation is enabled.
C10_FileFailureIsolation ==
  PassLoaded =>
    /\ passErr = "nil"
    /\ \A i \in SelectedAt :
         LET f == commit.tree[i]
             r == report[f.name]
         IN /\ r.outcome # "none"
            /\ (r.outcome # "cached" /\ Rejected(i)) =>
                 /\ r.calls = <<>>
                 /\ r.outcome \in {"DecodeError", "UnsupportedKind", "NamespaceMismatch"}
            /\ (r.outcome # "cached" /\ ~Rejected(i) /\ fault[1] = i) =>
                 r.outcome \in {"ServerError", "NotFound", "applied"}
            /\ (r.outcome # "cached" /\ ~Rejected(i) /\ fault[1] # i
                  /\ ~r.actual.present /\ conf.allowCreate) =>
                 /\ r.calls = <<"get", "create">>
                 /\ r.outcome = "applied"

\* b.yaml of a kind that is not listed comes first and is rejected without
\* a store call; a.yaml, absent, is created; the pass returns nil
C10_Witness ==
  /\ PassLoaded
  /\ passErr = "nil"
  /\ \E i, j \in SelectedAt :
       /\ i < j
       /\ commit.tree[i] = FileB1
       /\ commit.tree[j] = FileA1
  /\ report[NameB].outcome = "UnsupportedKind"
  /\ report[NameB].calls = <<>>
  /\ report[NameA].outcome = "applied"
  /\ report[NameA].calls = <<"get", "create">>

\* file i of the last pass reached the get of applyFile, and the get did
\* not fail
GotAnswer(i) ==
  LET r == report[commit.tree[i].name] IN
  /\ r.outcome \notin {"none", "cached", "ignored"}
  /\ ~Rejected(i)
  /\ fault # <<i, "get">>

\* the live object that get returned is left alone: it is another manager's
\* (with onlyManaged) or it carries the id of the file
Skipped(i) ==
  LET f == commit.tree[i]
      r == report[f.name]
  IN /\ r.actual.present
     /\ \/ /\ conf.onlyManaged
           /\ Lookup(r.actual.labels, managedByLabel) # operatorName
        \/ Lookup(r.actual.annotations, fileIdAnnotation) = f.id

\* C11: a file that passes the kind and namespace checks makes one mutation
\* call or none: one create and no update when the target is absent and
\* creation is enabled; one update and no create, carrying the
\* resourceVersion that get read, when the target is present and not
\* skipped; neither when it is skipped.
C11_CreateOrUpdate ==
  \A i \in SelectedAt :
    GotAnswer(i) =>
      LET r == report[commit.tree[i].name] IN
      /\ r.calls \in {<<"get">>, <<"get", "create">>, <<"get", "update">>}
      /\ (~r.actual.present /\ conf.allowCreate) => r.calls = <<"get", "create">>
      /\ (r.actual.present /\ ~Skipped(i)) =>
           /\ r.calls = <<"get", "update">>
           /\ r.wrote.present
           /\ r.wrote.rv = r.actual.rv
      /\ Skipped(i) => r.calls = <<"get">> /\ ~r.wrote.present

\* a pass has updated a live object, with the resourceVersion it read, and
\* has created another object
C11_Witness ==
  /\ rpc = "done"
  /\ passCount = 2
  /\ \E i, j \in SelectedAt :
       /\ GotAnswer(i) /\ GotAnswer(j)
       /\ report[commit.tree[i].name].calls = <<"get", "update">>
       /\ report[commit.tree[i].name].outcome = "applied"
       /\ report[commit.tree[i].name].actual.rv = 1
       /\ report[commit.tree[j].name].calls = <<"get", "create">>
       /\ report[commit.tree[j].name].outcome = "applied"

\* the last pass ran over the commit of the pass before it, which returned
\* nil, with the cache enabled
Rerun ==
  /\ rpc = "done"
  /\ prev.ran
  /\ prev.err = "nil"
  /\ ~cacheIds.nil

\* C12 as stated: the second pass over a commit whose first pass completed
\* makes no object-store call at all and returns nil.
C12_RerunMakesNoCall ==
  Rerun =>
    /\ passErr = "nil"
    /\ \A n \in Names : report[n].calls = <<>>

\* C12: with the cache enabled, the second pass over a commit whose first
\* pass returned nil returns nil and makes no object-store call for any file
\* whose apply returned nil in the first pass (or that the first pass found
\* cached), nor for a file that fails before the get; when that covers every
\* selected file the pass makes no call at all.
C12_RerunSkipsApplied ==
  Rerun =>
    /\ passErr = "nil"
    /\ \A i \in SelectedAt :
         LET n == commit.tree[i].name IN
         /\ prev.report[n].outcome \in {"applied", "cached"} =>
              /\ report[n].outcome = "cached"
              /\ report[n].calls = <<>>
         /\ Rejected(i) => report[n].calls = <<>>
         /\ report[n].calls # <<>> =>
              prev.report[n].outcome \in {"ServerError", "NotFound", "Conflict",
                                          "AlreadyExists"}

\* the first pass created the objects of two files; the second pass over the
\* same commit finds both cached and calls nothing
C12_Witness ==
  /\ Rerun
  /\ passErr = "nil"
  /\ \E i, j \in SelectedAt :
       /\ i # j
       /\ prev.report[commit.tree[i].name].calls = <<"get", "create">>
       /\ prev.report[commit.tree[j].name].calls = <<"get", "create">>
       /\ prev.report[commit.tree[i].name].outcome = "applied"
       /\ prev.report[commit.tree[j].name].outcome = "applied"
  /\ \A n \in Names : report[n].calls = <<>>

\* .nops.yaml of commit c is missing or malformed, or its namespace is not
\* in a non-empty allow-list
FatalForPass(c) ==
  \/ c.policy.state # "ok"
  \/ Len(conf.namespaces) > 0 /\ ~Contains(conf.namespaces, c.policy.ns)

\* C13: when the policy file is missing or malformed, or the allow-list is
\* not empty and lacks the policy's namespace, deployCommit returns an error,
\* makes no object-store call for any file and leaves the store and the cache
\* as they were; otherwise it returns nil, and with an empty allow-list every
\* policy namespace is accepted.
C13_FatalBeforeAnyFile ==
  [][(rpc' = "done" /\ passCount' = passCount + 1 /\ passErr' # "CloneError") =>
       /\ FatalForPass(commit') =>
            /\ passErr' \in {"LoadDotNops", "RestrictedNamespace"}
            /\ \A n \in Names : report'[n] = NoReport
            /\ store' = store
            /\ cacheIds' = cacheIds
            /\ lastWrite' = lastWrite
       /\ ~FatalForPass(commit') => passErr' = "nil"
       /\ (conf.namespaces = <<>> /\ commit'.policy.state = "ok") =>
            passErr' = "nil"]_vars

\* after a pass that filled the cache, a pass over a commit whose policy
\* names a namespace outside the allow-list fails, though its tree holds a
\* manifest for that namespace
C13_Witness ==
  /\ rpc = "done"
  /\ passCount = 2
  /\ passErr = "RestrictedNamespace"
  /\ \E i \in SelectedAt : commit.tree[i] = FileB2
  /\ ~cacheIds.nil
  /\ Lookup(cacheIds.m, NameA) # ""
  /\ \A n \in Names : report[n] = NoReport

\* the file of the tree of commit c named n, or no file
FileNamed(c, n) ==
  IF \E i \in 1..Len(c.tree) : c.tree[i].name = n
  THEN c.tree[CHOOSE i \in 1..Len(c.tree) : c.tree[i].name = n]
  ELSE File(n, "", FALSE, NoObj)

\* this step is a pass that ran deployCommit
PassStep == rpc' = "done" /\ passCount' = passCount + 1 /\ passErr' # "CloneError"

\* C14: over any sequence of passes, the cache entry of a path becomes id C
\* only in a pass whose applyFile of that path with id C returned nil; a file
\* whose apply failed leaves the entry of its path as it was; no entry is
\* ever removed; and with caching disabled there is never an entry and every
\* selected file of every pass that reaches the files goes to applyFile.
C14_CacheInvariant ==
  /\ [](/\ cacheIds.nil = ~conf.cacheFileId
        /\ cacheIds.nil => cacheIds.m = EmptyMap)
  /\ [][\A n \in Names :
          LET old == Lookup(cacheIds.m, n)
              new == Lookup(cacheIds'.m, n)
          IN /\ old # "" => new # ""
             /\ new # old =>
                  /\ PassStep
                  /\ report'[n].outcome = "applied"
                  /\ FileNamed(commit', n).id = new
             /\ (PassStep /\ report'[n].outcome \notin
                              {"none", "ignored", "cached", "applied"}) =>
                  new = old
             /\ (PassStep /\ cacheIds.nil /\ passErr' = "nil"
                   /\ Selected(n) /\ FileNamed(commit', n).id # "") =>
                  report'[n].outcome \notin {"none", "ignored", "cached"}]_vars

\* a pass has failed to apply the new a.yaml, whose entry still holds the id
\* of the old one, and has applied b.yaml, whose id was stored
C14_Witness ==
  /\ rpc = "done"
  /\ ~cacheIds.nil
  /\ FileNamed(commit, NameA) = FileA2
  /\ report[NameA].outcome = "ServerError"
  /\ Lookup(cacheIds.m, NameA) = FileA1.id
  /\ FileNamed(commit, NameB) = FileB4
  /\ report[NameB].outcome = "applied"
  /\ Lookup(cacheIds.m, NameB) = FileB4.id

(***************************************************************************)
(* More properties of the queue.                                           *)
(***************************************************************************)
\* C15: when the context of the job the worker has just received is
\* cancelled, the worker's next step drops the job: it starts no pass (so no
\* clone and no object-store call), sends nothing on the job's result
\* channel, and is back at the receive for the next job; a dropped job never
\* has a pass, an outcome or a result.
C15_DiscardAtDequeue ==
  /\ [](\A h \in discarded :
          /\ passes[h] = 0
          /\ outcome[h] = "none"
          /\ sent[h] = 0
          /\ resCh[h] = <<>>
          /\ h \notin running)
  /\ [][(wpc = "check" /\ CtxDone(wjob.ctx) /\ wpc' # "check") =>
          /\ wpc' = "recv"
          /\ wjob' = NoJob
          /\ discarded' = discarded \cup {wjob.id}
          /\ passes' = passes
          /\ running' = running
          /\ outcome' = outcome
          /\ resCh' = resCh
          /\ sent' = sent
          /\ deployJobs' = deployJobs
          /\ rvars' = rvars]_vars

\* a synchronous job was dropped at the receive, and the job enqueued after
\* it has had its pass
C15_Witness ==
  \E i, j \in 1..Len(deqLog) :
    /\ i < j
    /\ deqLog[i] \in discarded
    /\ hsync[deqLog[i]]
    /\ passes[deqLog[j]] = 1
    /\ outcome[deqLog[j]] # "none"

\* request h has a job in enqLog
Enqueued(h) == \E i \in 1..Len(enqLog) : enqLog[i] = h

\* C16: the queue never holds more jobs than its capacity; it changes only
\* by the worker taking its head or by a handler appending its own job while
\* there is room, so a submission on a full queue drops nothing and adds
\* nothing; a handler whose context is cancelled while it sleeps on the full
\* queue returns without having enqueued, as does every submission that ends
\* "cancelled"; and "triggered" is answered only for an enqueued job.
C16_BoundedBlockingQueue ==
  /\ [](/\ Len(deployJobs) <= QueueCap
        /\ \A h \in Reqs :
             /\ hpc[h] \in {"parked", "woken"} => ~Enqueued(h)
             /\ h \in blockedCancel =>
                  /\ ~Enqueued(h)
                  /\ hpc[h] \in {"woken", "done"}
                  /\ hpc[h] = "done" => resp[h] = "cancelled"
             /\ resp[h] = "cancelled" => ~Enqueued(h) /\ ~InQueue(h)
             /\ resp[h] = "triggered" => Enqueued(h) /\ ~hsync[h])
  /\ [][/\ deployJobs' # deployJobs =>
             \/ deployJobs # <<>> /\ deployJobs' = Tail(deployJobs)
             \/ /\ Len(deployJobs) < QueueCap
                /\ \E h \in Reqs :
                     /\ ~Enqueued(h)
                     /\ enqLog' = Append(enqLog, h)
                     /\ deployJobs' = Append(deployJobs,
                                             IF hsync[h] THEN SyncJob(h)
                                                         ELSE AsyncJob(h))
        /\ \A h \in Reqs :
             (hpc[h] = "parked" /\ Len(deployJobs) = QueueCap
                /\ ~reqDone[h] /\ reqDone'[h]) => h \in blockedCancel']_vars

\* a handler slept in its select on the full queue, its request was
\* cancelled and it has returned without a job; the worker has made room,
\* and the jobs enqueued are those that filled the queue
C16_Witness ==
  /\ Len(deployJobs) < QueueCap
  /\ Len(enqLog) = QueueCap
  /\ Len(deqLog) >= 1
  /\ \E h \in blockedCancel :
       /\ hpc[h] = "done"
       /\ resp[h] = "cancelled"
       /\ ~Enqueued(h)

(***************************************************************************)
(* More properties of the reconciliation engine.                           *)
(***************************************************************************)
\* the last pass called applyFile for file i
Evaluated(i) ==
  report[commit.tree[i].name].outcome \notin {"none", "ignored", "cached"}

\* C17: applyFile checks decode, then kind, then namespace, then get: the
\* first check that fails gives the error (a file of an unlisted kind in the
\* wrong namespace fails with the unsupported-kind error), a file failing one
\* of the first three makes no store call, and when get finds no object and
\* creation is disabled the error is the store's not-found error, with no
\* create and no update.
C17_CheckOrder ==
  \A i \in SelectedAt :
    Evaluated(i) =>
      LET f == commit.tree[i]
          r == report[f.name]
      IN /\ ~f.ok => r.outcome = "DecodeError" /\ r.calls = <<>>
         /\ (f.ok /\ ~Contains(conf.kinds, f.doc.kind)) =>
              r.outcome = "UnsupportedKind" /\ r.calls = <<>>
         /\ (f.ok /\ Contains(conf.kinds, f.doc.kind)
               /\ f.doc.ns # commit.policy.ns) =>
              r.outcome = "NamespaceMismatch" /\ r.calls = <<>>
         /\ ~Rejected(i) => Len(r.calls) >= 1 /\ r.calls[1] = "get"
         /\ (GotAnswer(i) /\ ~r.actual.present /\ ~conf.allowCreate) =>
              /\ r.outcome = "NotFound"
              /\ r.calls = <<"get">>
              /\ store[KeyOf(f.doc.kind, commit.policy.ns, f.doc.name)] = NoObj

\* one pass with creation disabled: a.yaml, whose object is absent, got the
\* not-found error after its get, and b.yaml, of an unlisted kind and in
\* another namespace than the policy's, was refused for its kind
C17_Witness ==
  /\ rpc = "done"
  /\ ~conf.allowCreate
  /\ \E i, j \in SelectedAt :
       /\ commit.tree[i] = FileB1
       /\ FileB1.doc.ns # commit.policy.ns
       /\ report[NameB].outcome = "UnsupportedKind"
       /\ report[NameB].calls = <<>>
       /\ GotAnswer(j)
       /\ report[commit.tree[j].name].outcome = "NotFound"
       /\ report[commit.tree[j].name].calls = <<"get">>

\* C18: every document that applyFile passes to create or update is the
\* file's document with: the ownership label set to operatorName, whatever
\* the file or the policy give for that key; for each other policy label the
\* policy's value; the file's remaining labels as they are; the commit-id
\* annotation set to the id of the pass's commit and the file-id annotation
\* set to the id of the file.
C18_InjectedMetadata ==
  \A i \in SelectedAt :
    LET f == commit.tree[i]
        r == report[f.name]
        pl == commit.policy.labels
        fl == f.doc.labels
    IN Len(r.calls) = 2 =>
         /\ r.wrote.present
         /\ r.wrote.kind = f.doc.kind
         /\ r.wrote.ns = f.doc.ns
         /\ r.wrote.name = f.doc.name
         /\ DOMAIN r.wrote.labels = DOMAIN fl \cup DOMAIN pl \cup {managedByLabel}
         /\ r.wrote.labels[managedByLabel] = operatorName
         /\ \A k \in DOMAIN pl \ {managedByLabel} : r.wrote.labels[k] = pl[k]
         /\ \A k \in DOMAIN fl \ (DOMAIN pl \cup {managedByLabel}) :
              r.wrote.labels[k] = fl[k]
         /\ Lookup(r.wrote.annotations, commitIdAnnotation) = commit.id
         /\ Lookup(r.wrote.annotations, fileIdAnnotation) = f.id
         /\ r.outcome = "applied" =>
              LET o == store[KeyOf(f.doc.kind, commit.policy.ns, f.doc.name)] IN
              /\ o.labels = r.wrote.labels
              /\ o.annotations = r.wrote.annotations

\* the last pass has written a document whose file and policy both give the
\* label "team", whose policy gives the ownership label, and whose file has
\* a label of its own
WroteA2 ==
  /\ FileNamed(commit, NameA) = FileA2
  /\ commit.policy = PolicyNs1
  /\ report[NameA].outcome = "applied"
  /\ report[NameA].calls = <<"get", "update">>
  /\ report[NameA].wrote.labels["team"] = "pol"
  /\ report[NameA].wrote.labels["app"] = "web"
  /\ report[NameA].wrote.labels[managedByLabel] = operatorName

\* that pass, after an earlier pass created the object of a file that gives
\* the ownership label itself
C18_Witness ==
  /\ rpc = "done"
  /\ WroteA2
  /\ store[KeyOf("Deployment", "ns2", "x")].present
  /\ store[KeyOf("Deployment", "ns2", "x")].labels[managedByLabel] = operatorName
  /\ Lookup(store[KeyOf("Deployment", "ns2", "x")].annotations, fileIdAnnotation)
       = FileB2.id

(***************************************************************************)
(* Progress of the worker.                                                 *)
(***************************************************************************)
\* the worker has received the job of request h
Dequeued(h) == \E i \in 1..Len(deqLog) : deqLog[i] = h

\* C19: the worker never gets stuck.  A result channel never holds more than
\* its one slot and gets at most one send, so the send of a result finds the
\* slot free and does not wait for the submitter; and, every pass returning,
\* the worker comes back to the receive after every pass, whatever it
\* returned, until every enqueued job has been received and the queue is
\* empty, whether or not the submitters read their results.
C19_WorkerNeverStuck ==
  /\ [](\A h \in Reqs : Len(resCh[h]) <= ResCap /\ sent[h] <= 1)
  /\ []((wpc = "deliver" /\ wjob.res # NilChan) => Len(resCh[wjob.res]) < ResCap)
  /\ <>[](/\ wpc = "recv"
          /\ deployJobs = <<>>
          /\ \A h \in Reqs : Enqueued(h) => Dequeued(h))

\* a pass failed for a synchronous job whose submitter has not read the
\* result, and the worker has received the next job and run its pass
C19_Witness ==
  \E i, j \in 1..Len(deqLog) :
    /\ i < j
    /\ outcome[deqLog[i]] = "err"
    /\ hpc[deqLog[i]] = "wait"
    /\ resCh[deqLog[i]] = <<"err">>
    /\ passes[deqLog[j]] = 1
    /\ outcome[deqLog[j]] # "none"
    /\ wpc = "recv"

(***************************************************************************)
(* The cache and the live objects.                                         *)
(***************************************************************************)
\* the pass stored the id of file i in the cache: applyFile returned nil for
\* it and the cache exists
Recorded(i) ==
  /\ ~cacheIds.nil
  /\ report[commit.tree[i].name].outcome = "applied"

\* the live object of a file when applyFile returned nil for it: the
\* document it wrote, or else the object its get returned
LiveWhenRecorded(i) ==
  LET r == report[commit.tree[i].name] IN
  IF Len(r.calls) = 2 THEN r.wrote ELSE r.actual

\* C20: whenever deployCommit stores path -> id in the cache, the live object
\* of that file carries that id in its file-id annotation at that moment, in
\* every configuration.
C20_CacheReflectsLiveObject ==
  \A i \in SelectedAt :
    Recorded(i) =>
      /\ LiveWhenRecorded(i).present
      /\ Lookup(LiveWhenRecorded(i).annotations, fileIdAnnotation)
           = commit.tree[i].id
      /\ Lookup(cacheIds.m, commit.tree[i].name) = commit.tree[i].id

====
